---- MODULE Spec2Model ----
(***************************************************************************)
(* Model of app.py: a Streamlit script that fetches the top coins from     *)
(* CoinGecko, fetches the OHLC candles of each coin, computes the RSI of   *)
(* the closes and lists the coins whose RSI is at or beyond a threshold.   *)
(*                                                                         *)
(* Numbers.  Closes are integers (prices in some fixed unit); averages     *)
(* and readings are exact rationals <<num, den>> in lowest terms, so the   *)
(* model follows the arithmetic of compute_rsi without the rounding of     *)
(* binary floating point (and without NaN or infinity).                    *)
(***************************************************************************)
EXTENDS Integers, Sequences, FiniteSets, TLC

\* ------------------------------------------------------------------ bounds
MaxClose == 3
MaxCandles == 5
MaxCoins == 2
MaxRuns == 2
MaxBigPages == 3

\* ------------------------------------------------------- program constants
PAGE_CAP == 250
TTL == 120
RETRY_SLEEP == 5
EPS_INV_ROOT == 1000000

\* -------------------------------------------------------------- arithmetic
Abs(x) == IF x < 0 THEN 0 - x ELSE x

Max(a, b) == IF a >= b THEN a ELSE b

Min(a, b) == IF a <= b THEN a ELSE b

RECURSIVE GCD(_, _)
GCD(a, b) == IF b = 0 THEN a ELSE GCD(b, a % b)

Rat(n, d) ==
  LET s == IF d < 0 THEN 0 - 1 ELSE 1
      g == GCD(Abs(n), Abs(d))
  IN  <<(s * n) \div g, (s * d) \div g>>

RAdd(x, y) == Rat(x[1] * y[2] + y[1] * x[2], x[2] * y[2])

RSub(x, y) == Rat(x[1] * y[2] - y[1] * x[2], x[2] * y[2])

RMul(x, y) == Rat(x[1] * y[1], x[2] * y[2])

RDiv(x, y) == Rat(x[1] * y[2], x[2] * y[1])

RLe(x, y) == x[1] * y[2] <= y[1] * x[2]

RLt(x, y) == x[1] * y[2] < y[1] * x[2]

RInt(n) == <<n, 1>>

RAbs(x) == <<Abs(x[1]), x[2]>>

\* abs(x) < 1e-12, with 1e-12 = 1 / (EPS_INV_ROOT * EPS_INV_ROOT); the test
\* is split in two divisions so that no intermediate exceeds 32 bits.
BelowEps(x) ==
  \/ x[1] = 0
  \/ LET q == x[2] \div Abs(x[1])
         r == x[2] % Abs(x[1])
         q2 == q \div EPS_INV_ROOT
         r2 == q % EPS_INV_ROOT
     IN  \/ q2 > EPS_INV_ROOT
         \/ q2 = EPS_INV_ROOT /\ (r2 > 0 \/ r > 0)

\* round(x, 2): nearest multiple of 1/100, ties to even
Round2(x) ==
  LET n == 100 * x[1]
      q == n \div x[2]
      r == n % x[2]
      up == \/ 2 * r > x[2]
            \/ 2 * r = x[2] /\ q % 2 = 1
  IN  Rat(IF up THEN q + 1 ELSE q, 100)

\* ------------------------------------------------------------ JSON values
\* A JSON field is a number or something that is not one (null, a string).
Num(v) == [isNum |-> TRUE, val |-> v]

NotNum == [isNum |-> FALSE, val |-> 0]

\* A candle row is a JSON list of fields, or a JSON value that is no list.
ListRow(fs) == [isList |-> TRUE, fields |-> fs]

NotAList == [isList |-> FALSE, fields |-> <<>>]

Candle(c) == ListRow(<<Num(0), Num(c), Num(c), Num(c), Num(c)>>)

ShortRow == ListRow(<<Num(0), Num(1), Num(1), Num(1)>>)

BadCloseRow == ListRow(<<Num(0), Num(1), Num(1), Num(1), NotNum>>)

\* ------------------------------------------------------------- indicator
RECURSIVE closes_from_ohlc(_)
closes_from_ohlc(ohlc) ==
  IF ohlc = <<>> THEN <<>>
  ELSE LET row == Head(ohlc)
       IN  IF row.isList /\ Len(row.fields) >= 5
           THEN <<row.fields[5]>> \o closes_from_ohlc(Tail(ohlc))
           ELSE closes_from_ohlc(Tail(ohlc))

\* closes[i] - closes[i - 1] for the Python index i (sequences are 1-based)
Change(cl, i) == cl[i + 1].val - cl[i].val

\* the subtraction raises TypeError when an operand is not a number
ChangeRaises(cl, i) == ~cl[i + 1].isNum \/ ~cl[i].isNum

Gain(change) == Max(change, 0)

\* faulty variants of Loss: every move counted as a loss; the sign kept
Loss_AnyMove(change) == Abs(change)

Loss_Signed(change) == Min(change, 0)

Loss(change) == Abs(Min(change, 0))

RECURSIVE SumGains(_, _)
SumGains(cl, i) == IF i = 0 THEN 0 ELSE SumGains(cl, i - 1) + Gain(Change(cl, i))

RECURSIVE SumLosses(_, _)
SumLosses(cl, i) == IF i = 0 THEN 0 ELSE SumLosses(cl, i - 1) + Loss(Change(cl, i))

SeedRaises(cl, p) == \E i \in 1..p : ChangeRaises(cl, i)

SeedGain(cl, p) == Rat(SumGains(cl, p), p)

SeedLoss(cl, p) == Rat(SumLosses(cl, p), p)

SmoothGain(avg, cl, i, p) ==
  RDiv(RAdd(RMul(avg, RInt(p - 1)), RInt(Gain(Change(cl, i)))), RInt(p))

SmoothLoss(avg, cl, i, p) ==
  RDiv(RAdd(RMul(avg, RInt(p - 1)), RInt(Loss(Change(cl, i)))), RInt(p))

RsiValue(ag, al) ==
  IF BelowEps(RAbs(al)) THEN RInt(100)
  ELSE LET rs == RDiv(ag, al)
       IN  RSub(RInt(100), RDiv(RInt(100), RAdd(RInt(1), rs)))

\* results of compute_rsi: None, a float, or a raised TypeError
NoneResult == [kind |-> "None", val |-> RInt(0)]

FloatResult(x) == [kind |-> "float", val |-> x]

RaisedResult == [kind |-> "TypeError", val |-> RInt(0)]

RECURSIVE SmoothFrom(_, _, _, _, _)
SmoothFrom(cl, p, i, ag, al) ==
  IF i >= Len(cl) THEN FloatResult(RsiValue(ag, al))
  ELSE IF ChangeRaises(cl, i) THEN RaisedResult
  ELSE SmoothFrom(cl, p, i + 1, SmoothGain(ag, cl, i, p), SmoothLoss(al, cl, i, p))

compute_rsi(cl, p) ==
  IF Len(cl) < p + 1 THEN NoneResult
  ELSE IF SeedRaises(cl, p) THEN RaisedResult
  ELSE SmoothFrom(cl, p, p + 1, SeedGain(cl, p), SeedLoss(cl, p))

\* the try block of the main loop: a raised exception leaves rsi = None
TryReading(ohlc, p) ==
  LET r == compute_rsi(closes_from_ohlc(ohlc), p)
  IN  IF r.kind = "TypeError" THEN NoneResult ELSE r

\* ------------------------------------------------------------------ state
VARIABLES
  \* one evaluation of the try block of the main loop, step by step
  ohlc_in, per, closes, avg_gain, avg_loss, ix, ipc, rsi,
  \* the script: widget values, clock, st.cache_data stores, position
  cfg, now, runsLeft, market, pc, cacheTop, cacheOhlc,
  \* fetch_top_coins locals and the page requests of its current call
  results, page, per_page, batches, topPrior,
  \* main loop
  coins, pos, rows, alerts, report, call, got,
  \* Telegram button
  lines, sent

ivars == <<ohlc_in, per, closes, avg_gain, avg_loss, ix, ipc, rsi>>

topvars == <<results, page, per_page, batches, topPrior>>

loopvars == <<coins, pos, rows, alerts, report, call, got>>

tgvars == <<lines, sent>>

svars == <<cfg, now, runsLeft, market, pc, cacheTop, cacheOhlc,
           topvars, loopvars, tgvars>>

vars == <<ivars, svars>>

\* ------------------------------------------- inputs of the indicator runs
MIN_PERIOD == 2
MaxPeriod == 3

RowSet == {Candle(c) : c \in 0..MaxClose} \cup {NotAList, ShortRow, BadCloseRow}

RECURSIVE SeqsUpTo(_, _)
SeqsUpTo(S, n) ==
  IF n = 0 THEN {<<>>}
  ELSE LET prev == SeqsUpTo(S, n - 1)
       IN  prev \cup {Append(q, x) : q \in {t \in prev : Len(t) = n - 1}, x \in S}

CandlesOf(cs) == [i \in 1..Len(cs) |-> Candle(cs[i])]

\* spec.md section 8: 7 closes 44, 44.25, 44.5, 43.75, 44.5, 44.0, 44.25
\* in quarters, and a 14-close series gaining 2 at each of its 13 deltas
ShortScenario == CandlesOf(<<176, 177, 178, 175, 178, 176, 177>>)

RisingScenario == CandlesOf([i \in 1..14 |-> 2 * (i - 1)])

SCENARIO_PERIOD == 13

IndicatorInputs ==
  (SeqsUpTo(RowSet, MaxCandles) \X (MIN_PERIOD..MaxPeriod))
    \cup ({ShortScenario, RisingScenario} \X {SCENARIO_PERIOD})

\* ------------------------------- compute_rsi, one step per loop iteration
ScriptOff ==
  /\ cfg = [n |-> 0, period |-> MIN_PERIOD, low |-> RInt(25), high |-> RInt(75)]
  /\ now = 0
  /\ runsLeft = 0
  /\ market = {}
  /\ pc = "off"
  /\ cacheTop = {}
  /\ cacheOhlc = {}
  /\ results = <<>>
  /\ page = 1
  /\ per_page = 0
  /\ batches = <<>>
  /\ topPrior = [at |-> 0, entries |-> {}]
  /\ coins = <<>>
  /\ pos = 1
  /\ rows = <<>>
  /\ alerts = <<>>
  /\ report = <<>>
  /\ call = [coin |-> 0, reqs |-> <<>>, sleeps |-> 0, outcome |-> "none",
             body |-> <<>>, startedAt |-> 0, prior |-> {}]
  /\ got = <<>>
  /\ lines = <<>>
  /\ sent = 0

IndicatorInit ==
  /\ ScriptOff
  /\ \E inp \in IndicatorInputs : ohlc_in = inp[1] /\ per = inp[2]
  /\ closes = <<>>
  /\ avg_gain = RInt(0)
  /\ avg_loss = RInt(0)
  /\ ix = 0
  /\ ipc = "start"
  /\ rsi = NoneResult

Extract ==
  /\ ipc = "start"
  /\ closes' = closes_from_ohlc(ohlc_in)
  /\ ipc' = "check"
  /\ UNCHANGED <<ohlc_in, per, avg_gain, avg_loss, ix, rsi>>
  /\ UNCHANGED svars

TooShort ==
  /\ ipc = "check"
  /\ Len(closes) < per + 1
  /\ rsi' = NoneResult
  /\ ipc' = "done"
  /\ UNCHANGED <<ohlc_in, per, closes, avg_gain, avg_loss, ix>>
  /\ UNCHANGED svars

Seed ==
  /\ ipc = "check"
  /\ Len(closes) >= per + 1
  /\ IF SeedRaises(closes, per)
     THEN /\ ipc' = "raised"
          /\ UNCHANGED <<avg_gain, avg_loss, ix>>
     ELSE /\ avg_gain' = SeedGain(closes, per)
          /\ avg_loss' = SeedLoss(closes, per)
          /\ ix' = per + 1
          /\ ipc' = "smooth"
  /\ UNCHANGED <<ohlc_in, per, closes, rsi>>
  /\ UNCHANGED svars

Smooth ==
  /\ ipc = "smooth"
  /\ ix < Len(closes)
  /\ IF ChangeRaises(closes, ix)
     THEN /\ ipc' = "raised"
          /\ UNCHANGED <<avg_gain, avg_loss, ix>>
     ELSE /\ avg_gain' = SmoothGain(avg_gain, closes, ix, per)
          /\ avg_loss' = SmoothLoss(avg_loss, closes, ix, per)
          /\ ix' = ix + 1
          /\ ipc' = "smooth"
  /\ UNCHANGED <<ohlc_in, per, closes, rsi>>
  /\ UNCHANGED svars

Finish ==
  /\ ipc = "smooth"
  /\ ix >= Len(closes)
  /\ rsi' = FloatResult(RsiValue(avg_gain, avg_loss))
  /\ ipc' = "done"
  /\ UNCHANGED <<ohlc_in, per, closes, avg_gain, avg_loss, ix>>
  /\ UNCHANGED svars

Except ==
  /\ ipc = "raised"
  /\ rsi' = NoneResult
  /\ ipc' = "done"
  /\ UNCHANGED <<ohlc_in, per, closes, avg_gain, avg_loss, ix>>
  /\ UNCHANGED svars

IndicatorNext == Extract \/ TooShort \/ Seed \/ Smooth \/ Finish \/ Except

SpecIndicator == IndicatorInit /\ [][IndicatorNext]_vars

\* the stepwise run and the function agree (sanity of the model)
StepwiseAgrees ==
  ipc = "done" => rsi = TryReading(ohlc_in, per)

\* ------------------------------------------------------------ the script
IndicatorOff ==
  /\ ohlc_in = <<>>
  /\ per = MIN_PERIOD
  /\ closes = <<>>
  /\ avg_gain = RInt(0)
  /\ avg_loss = RInt(0)
  /\ ix = 0
  /\ ipc = "off"
  /\ rsi = NoneResult

\* candle payloads the upstream may serve in the script runs
P25 == CandlesOf(<<3, 0, 1>>)

P75 == CandlesOf(<<0, 3, 2>>)

P50 == CandlesOf(<<0, 1, 0>>)

Short2 == CandlesOf(<<1, 2>>)

BadClose == <<Candle(0), BadCloseRow, Candle(1), Candle(2)>>

Catalog == {<<>>, P25, P75, P50, Short2, BadClose, ShortScenario}

Thresholds == {<<RInt(25), RInt(75)>>, <<RInt(30), RInt(70)>>}

Configs ==
  {[n |-> k, period |-> p, low |-> t[1], high |-> t[2]] :
     k \in 1..MaxCoins, p \in {MIN_PERIOD, SCENARIO_PERIOD}, t \in Thresholds}

Statuses == {"ok", "429", "http_error", "not_http"}

\* seconds that may pass between two runs of the script
Waits == {0, TTL - RETRY_SLEEP, TTL}

\* ---- st.cache_data(ttl=120): entries [key, val, at], fresh while now < at + ttl
FreshEntries(cache, key, t) ==
  {e \in cache : e.key = key /\ t < e.at + TTL}

CachePut(cache, key, val, t) ==
  {e \in cache : e.key # key} \cup {[key |-> key, val |-> val, at |-> t]}

\* the auto_refresh block clears the singleton (resource) caches; the
\* script has none, and the st.cache_data stores are not among them
AutoRefreshBlock_ClearsData(caches) == <<{}, {}>>

AutoRefreshBlock(caches) == caches

\* ---- fetch_top_coins
\* r.raise_for_status(), or the request itself, raises
PageRaises_Never(st) == FALSE

PageRaises(st) == st # "ok"

BatchLens(pp) == {b \in {0, 1, pp - 1, pp} : b >= 0}

BreakOnShort_OffByOne(b, pp) == b < pp - 1

BreakOnShort(b, pp) == b < pp

ScriptReset ==
  /\ rows' = <<>>
  /\ alerts' = <<>>
  /\ report' = <<>>
  /\ got' = <<>>
  /\ lines' = <<>>
  /\ sent' = 0
  /\ call' = [coin |-> 0, reqs |-> <<>>, sleeps |-> 0, outcome |-> "none",
              body |-> <<>>, startedAt |-> 0, prior |-> {}]

StartRun ==
  /\ pc \in {"idle", "done", "fault_top", "fault_sort"}
  /\ runsLeft > 0
  /\ runsLeft' = runsLeft - 1
  /\ \E wait \in (IF pc = "idle" THEN {0} ELSE Waits), auto \in BOOLEAN :
       LET caches == IF auto THEN AutoRefreshBlock(<<cacheTop, cacheOhlc>>)
                     ELSE <<cacheTop, cacheOhlc>>
           t == now + wait
           hit == FreshEntries(caches[1], cfg.n, t)
       IN  /\ now' = t
           /\ cacheTop' = caches[1]
           /\ cacheOhlc' = caches[2]
           /\ topPrior' = [at |-> t, entries |-> {e \in caches[1] : e.key = cfg.n}]
           /\ batches' = <<>>
           /\ results' = <<>>
           /\ page' = 1
           /\ per_page' = Min(PAGE_CAP, cfg.n)
           /\ pos' = 1
           /\ IF hit # {}
              THEN /\ coins' = (CHOOSE e \in hit : TRUE).val
                   /\ pc' = "loop"
              ELSE /\ coins' = <<>>
                   /\ pc' = "pages"
  /\ ScriptReset
  /\ UNCHANGED <<cfg, market, ivars>>

FetchPage ==
  /\ pc = "pages"
  /\ Len(results) < cfg.n
  /\ \E st \in Statuses :
       IF ~PageRaises(st)
       THEN \E b \in BatchLens(per_page) :
              LET batch == [k \in 1..b |-> (page - 1) * per_page + k]
              IN  /\ batches' = Append(batches, [page |-> page, status |-> st, len |-> b])
                  /\ IF b = 0
                     THEN /\ pc' = "return"
                          /\ UNCHANGED <<results, page>>
                     ELSE /\ results' = results \o batch
                          /\ page' = page + 1
                          /\ pc' = IF BreakOnShort(b, per_page) THEN "return" ELSE "pages"
       ELSE /\ batches' = Append(batches, [page |-> page, status |-> st, len |-> 0])
            /\ pc' = "fault_top"
            /\ UNCHANGED <<results, page>>
  /\ UNCHANGED <<cfg, now, runsLeft, market, cacheTop, cacheOhlc, per_page,
                 topPrior, loopvars, tgvars, ivars>>

ReturnCoins ==
  /\ pc = "return" \/ (pc = "pages" /\ Len(results) >= cfg.n)
  /\ coins' = SubSeq(results, 1, Min(cfg.n, Len(results)))
  /\ cacheTop' = CachePut(cacheTop, cfg.n, coins', now)
  /\ pc' = "loop"
  /\ pos' = 1
  /\ UNCHANGED <<cfg, now, runsLeft, market, cacheOhlc, topvars,
                 rows, alerts, report, call, got, tgvars, ivars>>

\* ---- main loop
ShouldAlert_NoneAsZero(r, low, high) == RLe(r.val, low) \/ RLe(high, r.val)

ShouldAlert_Strict(r, low, high) ==
  r.kind # "None" /\ (RLt(r.val, low) \/ RLt(high, r.val))

ShouldAlert(r, low, high) ==
  r.kind # "None" /\ (RLe(r.val, low) \/ RLe(high, r.val))

Row_NoneAsZero(coin, r) == [name |-> coin, rsi |-> FloatResult(Round2(r.val))]

Row(coin, r) ==
  [name |-> coin,
   rsi |-> IF r.kind # "None" THEN FloatResult(Round2(r.val)) ELSE NoneResult]

\* the rest of the loop body once rsi is known
AppendRow(coin, r, fetched, body) ==
  /\ rows' = Append(rows, Row(coin, r))
  /\ alerts' = IF ShouldAlert(r, cfg.low, cfg.high)
               THEN Append(alerts, [name |-> coin, rsi |-> r.val])
               ELSE alerts
  /\ got' = Append(got, [coin |-> coin, fetched |-> fetched, ohlc |-> body,
                          reading |-> r])
  /\ pos' = pos + 1
  /\ pc' = "loop"

ShouldRetry_AnyError(status) == status # "ok"

ShouldRetry(status) == status = "429"

Responses ==
  {[status |-> "ok", body |-> b] : b \in market}
    \cup {[status |-> st, body |-> <<>>] : st \in Statuses \ {"ok"}}

CallOhlc ==
  /\ pc = "loop"
  /\ pos <= Len(coins)
  /\ LET coin == coins[pos]
         hit == FreshEntries(cacheOhlc, coin, now)
         started == [coin |-> coin, reqs |-> <<>>, sleeps |-> 0,
                     outcome |-> "pending", body |-> <<>>, startedAt |-> now,
                     prior |-> {e \in cacheOhlc : e.key = coin}]
     IN  IF hit # {}
         THEN LET body == (CHOOSE e \in hit : TRUE).val
              IN  /\ call' = [started EXCEPT !.outcome = "hit", !.body = body]
                  /\ AppendRow(coin, TryReading(body, cfg.period), TRUE, body)
         ELSE /\ call' = started
              /\ pc' = "request"
              /\ UNCHANGED <<rows, alerts, got, pos>>
  /\ UNCHANGED <<cfg, now, runsLeft, market, cacheTop, cacheOhlc, topvars,
                 coins, report, tgvars, ivars>>

\* fetch_ohlc returns the payload: it is stored and the row is computed
Returned(resp) ==
  /\ call' = [call EXCEPT !.reqs = Append(@, resp), !.outcome = "returned",
                          !.body = resp.body]
  /\ cacheOhlc' = CachePut(cacheOhlc, call.coin, resp.body, now)
  /\ AppendRow(call.coin, TryReading(resp.body, cfg.period), TRUE, resp.body)

\* fetch_ohlc raises: the except clause of the loop sets rsi = None
Raised(resp) ==
  /\ call' = [call EXCEPT !.reqs = Append(@, resp), !.outcome = "raised"]
  /\ AppendRow(call.coin, NoneResult, FALSE, <<>>)
  /\ UNCHANGED cacheOhlc

Request ==
  /\ pc = "request"
  /\ \E resp \in Responses :
       IF resp.status = "ok" THEN Returned(resp)
       ELSE IF resp.status # "not_http" /\ ShouldRetry(resp.status)
       THEN /\ call' = [call EXCEPT !.reqs = Append(@, resp)]
            /\ pc' = "sleep"
            /\ UNCHANGED <<cacheOhlc, rows, alerts, got, pos>>
       ELSE Raised(resp)
  /\ UNCHANGED <<cfg, now, runsLeft, market, cacheTop, topvars,
                 coins, report, tgvars, ivars>>

Sleep ==
  /\ pc = "sleep"
  /\ now' = now + RETRY_SLEEP
  /\ call' = [call EXCEPT !.sleeps = @ + 1]
  /\ pc' = "retry"
  /\ UNCHANGED <<cfg, runsLeft, market, cacheTop, cacheOhlc, topvars,
                 coins, pos, rows, alerts, report, got, tgvars, ivars>>

Retry ==
  /\ pc = "retry"
  /\ \E resp \in Responses :
       IF resp.status = "ok" THEN Returned(resp) ELSE Raised(resp)
  /\ UNCHANGED <<cfg, now, runsLeft, market, cacheTop, topvars,
                 coins, report, tgvars, ivars>>

\* ---- report and notifications
RowBefore(a, b) ==
  \/ b.rsi.kind = "None"
  \/ a.rsi.kind # "None" /\ RLe(a.rsi.val, b.rsi.val)

\* sort_values(by="RSI", na_position="last"): some ascending arrangement
SortedArrangements(rs) ==
  LET N == Len(rs)
      perms == {f \in [1..N -> 1..N] : \A a, b \in 1..N : a # b => f[a] # f[b]}
      arr(f) == [k \in 1..N |-> rs[f[k]]]
  IN  {arr(f) : f \in {g \in perms :
                         \A a, b \in 1..N : a < b => RowBefore(rs[g[a]], rs[g[b]])}}

Direction(x, low) == IF RLe(x, low) THEN "<=" ELSE ">="

AlertLine(a, low, high) ==
  [op |-> Direction(a.rsi, low),
   th |-> IF RLe(a.rsi, low) THEN low ELSE high,
   name |-> a.name,
   rsi |-> Round2(a.rsi)]

Render ==
  /\ pc = "loop"
  /\ pos > Len(coins)
  /\ IF rows = <<>>
     THEN \* sort_values raises KeyError on a frame without columns
          /\ pc' = "fault_sort"
          /\ UNCHANGED <<report, lines, sent>>
     ELSE /\ report' \in SortedArrangements(rows)
          /\ pc' = "done"
          /\ \E creds \in BOOLEAN, pressed \in BOOLEAN :
               IF creds /\ alerts # <<>> /\ pressed
               THEN /\ lines' = [k \in 1..Len(alerts) |->
                                   AlertLine(alerts[k], cfg.low, cfg.high)]
                    /\ sent' \in 0..Len(alerts)
               ELSE /\ lines' = <<>>
                    /\ sent' = 0
  /\ UNCHANGED <<cfg, now, runsLeft, market, cacheTop, cacheOhlc, topvars,
                 coins, pos, rows, alerts, call, got, ivars>>

ScriptStart ==
  /\ IndicatorOff
  /\ now = 0
  /\ pc = "idle"
  /\ cacheTop = {}
  /\ cacheOhlc = {}
  /\ results = <<>>
  /\ page = 1
  /\ per_page = 0
  /\ batches = <<>>
  /\ topPrior = [at |-> 0, entries |-> {}]
  /\ coins = <<>>
  /\ pos = 1
  /\ rows = <<>>
  /\ alerts = <<>>
  /\ report = <<>>
  /\ call = [coin |-> 0, reqs |-> <<>>, sleeps |-> 0, outcome |-> "none",
             body |-> <<>>, startedAt |-> 0, prior |-> {}]
  /\ got = <<>>
  /\ lines = <<>>
  /\ sent = 0

\* one run of the script from a cold cache
Init ==
  /\ ScriptStart
  /\ cfg \in Configs
  /\ runsLeft = 1
  /\ market = Catalog

Next ==
  \/ StartRun
  \/ FetchPage
  \/ ReturnCoins
  \/ CallOhlc
  \/ Request
  \/ Sleep
  \/ Retry
  \/ Render

Spec == Init /\ [][Next]_vars

\* reruns of the script against a warm cache, with one or two coins
CacheCoinCounts == {1, 2}

CacheInit ==
  /\ ScriptStart
  /\ cfg \in {[n |-> k, period |-> MIN_PERIOD, low |-> RInt(25), high |-> RInt(75)] :
               k \in CacheCoinCounts}
  /\ runsLeft = MaxRuns
  /\ market = {P25, P75}

SpecCache == CacheInit /\ [][Next]_vars

\* fetch_top_coins alone, for limits around the page cap
PageLimits ==
  (0..MaxCoins) \cup {k * PAGE_CAP + d : k \in 1..MaxBigPages, d \in {0 - 1, 0, 1}}

PagesInit ==
  /\ ScriptStart
  /\ cfg \in {[n |-> k, period |-> MIN_PERIOD, low |-> RInt(25), high |-> RInt(75)] :
               k \in PageLimits}
  /\ runsLeft = 1
  /\ market = {}

PagesNext == StartRun \/ FetchPage \/ ReturnCoins

SpecPages == PagesInit /\ [][PagesNext]_vars

\* ------------------------------------------------ claims on the indicator
AllNumbers(cl) == \A i \in 1..Len(cl) : cl[i].isNum

NonDecreasing(cl) ==
  AllNumbers(cl) /\ \A i \in 1..(Len(cl) - 1) : cl[i].val <= cl[i + 1].val

NonIncreasing(cl) ==
  AllNumbers(cl) /\ \A i \in 1..(Len(cl) - 1) : cl[i].val >= cl[i + 1].val

NoGain(cl) == NonIncreasing(cl)

Seeded == ipc = "smooth" \/ (ipc = "done" /\ rsi.kind = "float")

WellFormedRow(row) ==
  row.isList /\ Len(row.fields) >= 5 /\ row.fields[5].isNum

RECURSIVE WellFormedCloses(_)
WellFormedCloses(ohlc) ==
  IF ohlc = <<>> THEN <<>>
  ELSE IF WellFormedRow(Head(ohlc))
       THEN <<Head(ohlc).fields[5]>> \o WellFormedCloses(Tail(ohlc))
       ELSE WellFormedCloses(Tail(ohlc))

\* C7: the reading of a candle sequence with malformed rows (not a list,
\* fewer than 5 fields, or a close that is not a number) is the reading
\* compute_rsi gives for the closes of the well-formed rows alone.
C7_MalformedRowsSkipped ==
  ipc = "done" => rsi = compute_rsi(WellFormedCloses(ohlc_in), per)

\* C8: for a monotonically increasing close series with more than period
\* closes, avg_loss is zero after the seed step and after every smoothing
\* step, and the reading is exactly 100.
C8_IncreasingReads100 ==
  (NonDecreasing(closes) /\ Len(closes) > per) =>
     /\ Seeded => avg_loss = RInt(0)
     /\ ipc = "done" => rsi = FloatResult(RInt(100))

C8_Witness ==
  /\ ipc = "done"
  /\ Len(closes) > per + 1
  /\ NonDecreasing(closes)
  /\ closes[1].val < closes[Len(closes)].val
  /\ rsi = FloatResult(RInt(100))

InRange(x) == RLe(RInt(0), x) /\ RLe(x, RInt(100))

\* C9 as stated: averages never negative, every reading within [0, 100],
\* and the reading is 0 when no delta is a gain.
C9_ZeroWhenNoGain ==
  /\ Seeded => RLe(RInt(0), avg_gain) /\ RLe(RInt(0), avg_loss)
  /\ rsi.kind = "float" => InRange(rsi.val)
  /\ (ipc = "done" /\ rsi.kind = "float" /\ NoGain(closes)) => rsi.val = RInt(0)

\* C9 amended: averages never negative, every reading within [0, 100], and
\* the reading is 0 when no delta is a gain and avg_loss is not below
\* 1e-12 (a series without any loss reads 100).
C9_RangeAndZero ==
  /\ Seeded => RLe(RInt(0), avg_gain) /\ RLe(RInt(0), avg_loss)
  /\ rsi.kind = "float" => InRange(rsi.val)
  /\ (ipc = "done" /\ rsi.kind = "float" /\ NoGain(closes)) =>
        rsi.val = (IF BelowEps(avg_loss) THEN RInt(100) ELSE RInt(0))

C9_Witness ==
  /\ ipc = "done"
  /\ rsi = FloatResult(RInt(0))
  /\ NonIncreasing(closes)
  /\ Len(closes) > per + 1
  /\ closes[1].val > closes[Len(closes)].val

\* --------------------------------------------------- claims on the script
CallOver == call.outcome \in {"returned", "raised"}

\* C1: a fetch_ohlc call whose first request is answered 429 sleeps once
\* (5 seconds), retries once, and ends as the retry ends; a first request
\* failing otherwise raises with no sleep and no retry; no call makes more
\* than two requests or sleeps more than once.
C1_RetryOnceOn429 ==
  /\ Len(call.reqs) <= 2
  /\ call.sleeps <= 1
  /\ call.outcome # "none" => now = call.startedAt + RETRY_SLEEP * call.sleeps
  /\ CallOver =>
       LET first == call.reqs[1]
           last == call.reqs[Len(call.reqs)]
       IN  /\ first.status = "429" => Len(call.reqs) = 2 /\ call.sleeps = 1
           /\ first.status # "429" => Len(call.reqs) = 1 /\ call.sleeps = 0
           /\ last.status = "ok" => call.outcome = "returned" /\ call.body = last.body
           /\ last.status # "ok" => call.outcome = "raised"

C1_Witness ==
  /\ call.outcome = "returned"
  /\ Len(call.reqs) = 2
  /\ call.reqs[1].status = "429"
  /\ call.reqs[2].status = "ok"
  /\ call.body = call.reqs[2].body
  /\ call.body # <<>>
  /\ call.sleeps = 1
  /\ now = call.startedAt + RETRY_SLEEP

LoopOver == pc \in {"loop", "done", "fault_sort"} /\ pos > Len(coins)

FailedAssets == {k \in 1..Len(got) : ~got[k].fetched}

OneRowPerAsset ==
  /\ Len(rows) = Len(coins)
  /\ \A k \in 1..Len(rows) : rows[k].name = coins[k] /\ got[k].coin = coins[k]

IsArrangementOf(rep, rs) ==
  /\ Len(rep) = Len(rs)
  /\ \A k \in 1..Len(rs) :
       Cardinality({j \in 1..Len(rep) : rep[j] = rs[k]})
         = Cardinality({j \in 1..Len(rs) : rs[j] = rs[k]})

HasHistory(ohlc, p) ==
  LET cl == closes_from_ohlc(ohlc)
  IN  Len(cl) >= p + 1 /\ AllNumbers(cl)

\* C2 as stated: when the candle fetch fails for exactly one of N assets,
\* the cycle completes, the report has N rows, one per asset, the failing
\* asset's row is Undefined and the other N-1 rows are defined.
C2_OthersDefined ==
  (LoopOver /\ Cardinality(FailedAssets) = 1) =>
     /\ pc # "fault_sort"
     /\ OneRowPerAsset
     /\ pc = "done" => IsArrangementOf(report, rows)
     /\ \A k \in 1..Len(rows) :
          IF k \in FailedAssets THEN rows[k].rsi.kind = "None"
          ELSE rows[k].rsi.kind = "float"

\* C2 amended: when the candle fetch fails for exactly one of N assets, the
\* cycle completes, the report has N rows, one per asset, the failing
\* asset's row is Undefined, and each other asset is still fetched and its
\* row is defined exactly when its own candles give at least period+1
\* closes, all of them numbers.
C2_FailureIsolated ==
  (LoopOver /\ Cardinality(FailedAssets) = 1) =>
     /\ pc # "fault_sort"
     /\ OneRowPerAsset
     /\ pc = "done" => IsArrangementOf(report, rows)
     /\ \A k \in 1..Len(rows) :
          IF k \in FailedAssets THEN rows[k].rsi.kind = "None"
          ELSE /\ got[k].fetched
               /\ rows[k].rsi.kind = "float" <=> HasHistory(got[k].ohlc, cfg.period)

C2_Witness ==
  /\ pc = "done"
  /\ Len(coins) = MaxCoins
  /\ FailedAssets = {1}
  /\ Len(report) = MaxCoins
  /\ \A k \in 2..MaxCoins : rows[k].rsi.kind = "float"

PriorFresh(prior, t) == {e \in prior : t < e.at + TTL}

CacheHitsServeStored ==
  /\ (call.outcome # "none" /\ PriorFresh(call.prior, call.startedAt) # {}) =>
        /\ call.outcome = "hit"
        /\ call.reqs = <<>>
        /\ \A e \in PriorFresh(call.prior, call.startedAt) : call.body = e.val
  /\ (pc \notin {"idle", "off"} /\ PriorFresh(topPrior.entries, topPrior.at) # {}) =>
        /\ batches = <<>>
        /\ pc # "pages"
        /\ \A e \in PriorFresh(topPrior.entries, topPrior.at) : coins = e.val

EntriesKept ==
  /\ \A e \in cacheOhlc : now' < e.at + TTL => e \in cacheOhlc'
  /\ \A e \in cacheTop : now' < e.at + TTL => e \in cacheTop'

\* C3: a call of fetch_top_coins or fetch_ohlc made less than 120 seconds
\* after a result for the same parameters was stored returns the stored
\* result without an upstream request, and no step changes or removes an
\* entry before its 120 seconds are over.
C3_CacheWithinTtl == [](CacheHitsServeStored) /\ [][EntriesKept]_vars

C3_Witness ==
  /\ call.outcome = "hit"
  /\ call.reqs = <<>>
  /\ \E e \in call.prior : e.at < call.startedAt /\ call.body = e.val
  /\ batches = <<>>
  /\ \E e \in topPrior.entries : e.at < topPrior.at /\ coins = e.val

RECURSIVE Received(_, _)
Received(bs, k) == IF k = 0 THEN 0 ELSE Received(bs, k - 1) + bs[k].len

MaxRequests(n, pp) == IF n <= 0 THEN 0 ELSE (n + pp - 1) \div pp

\* C4: fetch_top_coins(n) requests pages 1, 2, 3, ... with page size
\* min(250, n), issues no request once n rows are held or a page came back
\* short or empty, needs at most ceil(n / page size) requests, and returns
\* the first min(n, rows received) rows in the order received.
C4_Paging ==
  pc \in {"pages", "return", "loop", "fault_top"} =>
     /\ per_page = Min(PAGE_CAP, cfg.n)
     /\ Len(batches) <= MaxRequests(cfg.n, per_page)
     /\ \A k \in 1..Len(batches) :
          /\ batches[k].page = k
          /\ Received(batches, k - 1) < cfg.n
          /\ \A j \in 1..(k - 1) : batches[j].len = per_page
     /\ pc = "loop" =>
          /\ \/ Received(batches, Len(batches)) >= cfg.n
             \/ batches # <<>> /\ batches[Len(batches)].len < per_page
          /\ Len(coins) <= cfg.n
          /\ coins = [k \in 1..Min(cfg.n, Received(batches, Len(batches))) |-> k]

C4_Witness ==
  /\ pc = "loop"
  /\ cfg.n > 2 * PAGE_CAP
  /\ Len(batches) = 3
  /\ batches[3].len = 1
  /\ Len(coins) = 2 * PAGE_CAP + 1

\* C5: a failed page request ends the run at once: no asset list (not even
\* of the pages already received), no candle fetch, no row, alert or
\* report; a failed candle fetch only leaves its asset's row Undefined and
\* the run goes on to its report.
C5_TopFailureFatal ==
  /\ (\E k \in 1..Len(batches) : batches[k].status # "ok") =>
        /\ pc = "fault_top"
        /\ coins = <<>>
        /\ cacheTop = {}
        /\ call.outcome = "none"
        /\ got = <<>> /\ rows = <<>> /\ alerts = <<>> /\ report = <<>>
  /\ FailedAssets # {} =>
        /\ pc \notin {"fault_top", "fault_sort"}
        /\ \A k \in FailedAssets : rows[k].rsi.kind = "None"
        /\ pc = "done" => IsArrangementOf(report, rows) /\ Len(rows) = Len(coins)

C5_Witness ==
  /\ pc = "fault_top"
  /\ batches # <<>>
  /\ batches[Len(batches)].status = "429"
  /\ coins = <<>>

AlertsOf(coin) == {j \in 1..Len(alerts) : alerts[j].name = coin}

\* C6: an Undefined reading gives no alert, a reading <= low exactly one
\* alert reported as "<=" low (Oversold), a reading >= high exactly one
\* alert reported as ">=" high (Overbought), a reading strictly between
\* none; the boundaries are inclusive.
C6_Classification ==
  \A k \in 1..Len(got) :
    LET r == got[k].reading
        mine == AlertsOf(got[k].coin)
    IN  /\ r.kind = "None" => mine = {}
        /\ (r.kind = "float" /\ RLt(cfg.low, r.val) /\ RLt(r.val, cfg.high)) => mine = {}
        /\ (r.kind = "float" /\ RLe(r.val, cfg.low)) =>
              /\ Cardinality(mine) = 1
              /\ \A j \in mine :
                   /\ alerts[j].rsi = r.val
                   /\ Direction(alerts[j].rsi, cfg.low) = "<="
                   /\ lines # <<>> => lines[j].op = "<=" /\ lines[j].th = cfg.low
        /\ (r.kind = "float" /\ RLe(cfg.high, r.val)) =>
              /\ Cardinality(mine) = 1
              /\ \A j \in mine :
                   /\ alerts[j].rsi = r.val
                   /\ Direction(alerts[j].rsi, cfg.low) = ">="
                   /\ lines # <<>> => lines[j].op = ">=" /\ lines[j].th = cfg.high

C6_Witness ==
  /\ pc = "done"
  /\ cfg.low = RInt(25) /\ cfg.high = RInt(75)
  /\ Len(got) = 2
  /\ got[1].reading = FloatResult(RInt(25))
  /\ got[2].reading = FloatResult(RInt(50))
  /\ Len(alerts) = 1
  /\ alerts[1].name = got[1].coin
  /\ Len(lines) = 1
  /\ lines[1].op = "<="

\* C10: a series with fewer than period+1 closes (the empty one included)
\* makes compute_rsi return None, neither an error nor a number, and its
\* asset gets an Undefined row and no alert.
C10_ShortSeriesUndefined ==
  \A k \in 1..Len(got) :
    LET cl == closes_from_ohlc(got[k].ohlc)
    IN  (got[k].fetched /\ Len(cl) < cfg.period + 1) =>
           /\ compute_rsi(cl, cfg.period) = NoneResult
           /\ got[k].reading = NoneResult
           /\ rows[k].rsi = NoneResult
           /\ AlertsOf(got[k].coin) = {}

C10_Witness ==
  /\ pc = "done"
  /\ cfg.period = SCENARIO_PERIOD
  /\ Len(got) = 2
  /\ got[1].ohlc = ShortScenario
  /\ got[2].ohlc = <<>>
  /\ got[2].fetched
  /\ Len(closes_from_ohlc(got[1].ohlc)) = 7
  /\ rows[1].rsi = NoneResult
  /\ rows[2].rsi = NoneResult
  /\ alerts = <<>>

====
